---- MODULE Spec2Model ----
(***************************************************************************)
(* FullWash Machine BLE configuration tool (tools/ble_config_tool.py).     *)
(*                                                                         *)
(* The model follows one invocation of the tool: main parses the command   *)
(* line and runs at most one of scan_devices, read_configuration and       *)
(* configure_machine; configure_machine may also be called directly with   *)
(* an integer machine number.  Every remote call into the transport        *)
(* library (discover, connect, write_gatt_char, read_gatt_char,            *)
(* disconnect) either returns or raises; the text a read returns is chosen *)
(* by the device.  Texts are sequences of one-character strings, so that   *)
(* substring tests, lower-casing and decimal formatting are computed.      *)
(***************************************************************************)
EXTENDS Integers, Sequences, FiniteSets, TLC

(* ------------------------------ texts --------------------------------- *)

\* Optional values: None is <<>>, a present value x is <<x>>.
None ==
    <<>>

Some(x) ==
    <<x>>

\* Python truthiness of an optional text: None and "" are falsy.
Truthy(o) ==
    o # None /\ o[1] # <<>>

\* (o or ""): the text of an optional text, "" for None and for "".
OrEmpty(o) ==
    IF o = None THEN <<>> ELSE o[1]

UpperAlpha ==
    <<"A","B","C","D","E","F","G","H","I","J","K","L","M","N","O","P","Q","R","S","T","U","V","W","X","Y","Z">>

LowerAlpha ==
    <<"a","b","c","d","e","f","g","h","i","j","k","l","m","n","o","p","q","r","s","t","u","v","w","x","y","z">>

Digits ==
    <<"0","1","2","3","4","5","6","7","8","9">>

LowerChar(c) ==
    IF \E i \in 1..Len(UpperAlpha) : UpperAlpha[i] = c
    THEN LowerAlpha[CHOOSE i \in 1..Len(UpperAlpha) : UpperAlpha[i] = c]
    ELSE c

\* str.lower()
Lower(s) ==
    [i \in 1..Len(s) |-> LowerChar(s[i])]

\* (sub in s) for two texts
Contains(sub, s) ==
    \E i \in 0..(Len(s) - Len(sub)) : SubSeq(s, i + 1, i + Len(sub)) = sub

RECURSIVE DecimalDigits(_)
DecimalDigits(n) ==
    IF n < 10
    THEN <<Digits[n + 1]>>
    ELSE Append(DecimalDigits(n \div 10), Digits[(n % 10) + 1])

\* str(number): an int is formatted in decimal, a str is returned as it is.
Str(number) ==
    IF number.kind = "int"
    THEN (IF number.n < 0
          THEN <<"-">> \o DecimalDigits(-number.n)
          ELSE DecimalDigits(number.n))
    ELSE number.s

(* ---------------------------- constants ------------------------------- *)

AUTH_CHAR_UUID ==
    "beb5483e-36e1-4688-b7f5-ea07361b26a8"

MACHINE_NUM_CHAR_UUID ==
    "1c95d5e3-d8f7-413a-bf3d-7a2e5d7be87e"

STATUS_CHAR_UUID ==
    "d8de624e-140f-4a22-8594-e2216b84a5f2"

DEFAULT_DEVICE_NAME ==
    <<"F","u","l","l","W","a","s","h"," ","M","a","c","h","i","n","e">>

DEFAULT_PASSWORD ==
    <<"f","u","l","l","w","a","s","h","2","0","2","5">>

\* the literal of `"Authenticated" in status_str`
AuthMarker ==
    <<"A","u","t","h","e","n","t","i","c","a","t","e","d">>

\* the literal of `"success" in status_str.lower()`
SuccessMarker ==
    <<"s","u","c","c","e","s","s">>

(* ------------------------------ inputs -------------------------------- *)

TxtAuthenticated ==
    <<"A","u","t","h","e","n","t","i","c","a","t","e","d">>

TxtNotAuthenticated ==
    <<"N","o","t"," ","A","u","t","h","e","n","t","i","c","a","t","e","d">>

TxtAuthFailed ==
    <<"A","u","t","h","e","n","t","i","c","a","t","i","o","n"," ","f","a","i","l","e","d">>

TxtLowerAuth ==
    <<"a","u","t","h","e","n","t","i","c","a","t","e","d">>

TxtUpperSuccess ==
    <<"U","p","d","a","t","e"," ","S","U","C","C","E","S","S">>

TxtSuccess ==
    <<"W","r","i","t","e"," ","s","u","c","c","e","s","s">>

TxtError ==
    <<"E","r","r","o","r">>

\* The texts the device may return from the status attribute.
StatusTexts ==
    {TxtAuthenticated, TxtNotAuthenticated, TxtAuthFailed, TxtLowerAuth,
     TxtUpperSuccess, TxtSuccess, TxtError, <<>>}

\* The texts the device may return from the machine-number attribute.
NumberTexts ==
    {<<"7">>, <<"4","2">>, <<"1","0","5">>}

NameExact ==
    <<"F","u","l","l","W","a","s","h"," ","M","a","c","h","i","n","e">>

NameSuffixed ==
    <<"F","u","l","l","W","a","s","h"," ","M","a","c","h","i","n","e"," ","7">>

NamePrefixed ==
    <<"M","y"," ","F","u","l","l","W","a","s","h"," ","M","a","c","h","i","n","e">>

NameLower ==
    <<"f","u","l","l","w","a","s","h"," ","m","a","c","h","i","n","e">>

NameOther ==
    <<"F","u","l","l","W","a","s","h">>

\* device.name of a discovered device: None or a text.
DeviceNames ==
    {None, Some(NameExact), Some(NameSuffixed), Some(NamePrefixed),
     Some(NameLower), Some(NameOther), Some(<<>>)}

\* The most devices one discovery returns.
MaxDevices ==
    3

\* The lists BleakScanner.discover may return; a device's address is its
\* position, so the devices of one list are distinct.
DeviceLists ==
    UNION {[1..n -> DeviceNames] : n \in 0..MaxDevices}

Discovered(names) ==
    [i \in 1..Len(names) |-> [name |-> names[i], address |-> i]]

AddressText ==
    <<"A","A",":","B","B">>

\* --address: absent, empty, or a MAC address.
AddressArgs ==
    {None, Some(<<>>), Some(AddressText)}

\* --configure NUMBER: absent, empty, or a text; argparse neither converts
\* nor validates it, so it need not be a number.
ConfigureArgs ==
    {None, Some(<<>>), Some(<<"4","2">>), Some(<<"0","4","2">>),
     Some(<<"4","x">>)}

\* --password: the default or a custom one.
PasswordArgs ==
    {DEFAULT_PASSWORD, <<"p","w">>}

\* The integers configure_machine is called with directly.
ApiNumbers ==
    {0, 7, 42, 105, -5}

IntNumber(n) ==
    [kind |-> "int", n |-> n, s |-> <<>>]

StrNumber(s) ==
    [kind |-> "str", n |-> 0, s |-> s]

NoNumber ==
    [kind |-> "none", n |-> 0, s |-> <<>>]

NoArgs ==
    [scan |-> FALSE, read |-> FALSE, configure |-> None, address |-> None,
     password |-> DEFAULT_PASSWORD]

(* ------------------------------- state -------------------------------- *)

VARIABLES
    pc,               \* the control point of the invocation
    entry,            \* "none", "main" or "api": how the command was entered
    args,             \* the parsed command line
    command,          \* "none", "scan", "read" or "configure"
    device_address,   \* FullWashBLEConfig.device_address
    password,         \* FullWashBLEConfig.password
    machine_number,   \* the machine_number argument of configure_machine
    client,           \* FullWashBLEConfig.client: "None" or "BleakClient"
    is_connected,     \* client.is_connected
    ops,              \* the remote calls issued so far, in order
    auth_ret,         \* what authenticate returned: "unset", "True", "False"
    write_ret,        \* what write_machine_number returned
    machine_num,      \* read_configuration's machine_num (optional text)
    current_num,      \* configure_machine's current_num (optional text)
    new_num,          \* configure_machine's new_num (optional text)
    pending,          \* the return value held while the finally block runs
    ret,              \* "running", or how the command ended
    error_printed,    \* an "Error: ..." line was printed
    help_printed,     \* parser.print_help() was called
    sys_exit,         \* sys.exit(1) was called
    devices,          \* scan_devices' devices
    idx,              \* how many devices the for loop has handled
    fullwash_devices, \* scan_devices' fullwash_devices
    scan_ret,         \* the list scan_devices returned
    disconnect_calls  \* how many times config.disconnect() was awaited

vars ==
    <<pc, entry, args, command, device_address, password, machine_number,
      client, is_connected, ops, auth_ret, write_ret, machine_num,
      current_num, new_num, pending, ret, error_printed, help_printed,
      sys_exit, devices, idx, fullwash_devices, scan_ret, disconnect_calls>>

configVars ==
    <<device_address, password, machine_number>>

scanVars ==
    <<devices, idx, fullwash_devices, scan_ret>>

mainVars ==
    <<entry, args, command, help_printed, sys_exit>>

readVars ==
    <<machine_num, current_num, new_num>>

\* FullWashBLEConfig.__init__ and the state before main runs
Init ==
    /\ pc = "start"
    /\ entry = "none"
    /\ args = NoArgs
    /\ command = "none"
    /\ device_address = <<>>
    /\ password = DEFAULT_PASSWORD
    /\ machine_number = NoNumber
    /\ client = "None"
    /\ is_connected = FALSE
    /\ ops = <<>>
    /\ auth_ret = "unset"
    /\ write_ret = "unset"
    /\ machine_num = None
    /\ current_num = None
    /\ new_num = None
    /\ pending = "None"
    /\ ret = "running"
    /\ error_printed = FALSE
    /\ help_printed = FALSE
    /\ sys_exit = FALSE
    /\ devices = <<>>
    /\ idx = 0
    /\ fullwash_devices = <<>>
    /\ scan_ret = <<>>
    /\ disconnect_calls = 0

(* ------------------------------- main --------------------------------- *)

\* `not args.address`: the address is absent or empty.
MissingAddressNoneOnly(a) ==
    a.address = None

MissingAddress(a) ==
    ~Truthy(a.address)

\* The command main's if/elif chain selects: the first of --scan, --read and
\* a truthy --configure; "help" when there is none.
SelectedReadFirst(a) ==
    IF a.read THEN "read"
    ELSE IF a.scan THEN "scan"
    ELSE IF Truthy(a.configure) THEN "configure"
    ELSE "help"

Selected(a) ==
    IF a.scan THEN "scan"
    ELSE IF a.read THEN "read"
    ELSE IF Truthy(a.configure) THEN "configure"
    ELSE "help"

\* main(): parse the command line and start the selected command.
main ==
    /\ pc = "start"
    /\ \E a_scan \in BOOLEAN, a_read \in BOOLEAN, a_conf \in ConfigureArgs,
          a_addr \in AddressArgs, a_pw \in PasswordArgs :
         LET a == [scan |-> a_scan, read |-> a_read, configure |-> a_conf,
                   address |-> a_addr, password |-> a_pw]
             sel == Selected(a)
         IN  /\ args' = a
             /\ entry' = "main"
             /\ IF sel = "scan"
                THEN /\ command' = "scan"
                     /\ pc' = "discover"
                     /\ UNCHANGED <<configVars, error_printed, help_printed,
                                    sys_exit, ret>>
                ELSE IF sel = "help"
                THEN /\ command' = "none"
                     /\ help_printed' = TRUE
                     /\ ret' = "not_run"
                     /\ pc' = "done"
                     /\ UNCHANGED <<configVars, error_printed, sys_exit>>
                ELSE IF MissingAddress(a)
                THEN /\ command' = "none"
                     /\ error_printed' = TRUE
                     /\ help_printed' = TRUE
                     /\ sys_exit' = TRUE
                     /\ ret' = "not_run"
                     /\ pc' = "done"
                     /\ UNCHANGED configVars
                ELSE /\ command' = sel
                     /\ device_address' = a.address[1]
                     /\ password' = a.password
                     /\ machine_number' =
                           IF sel = "configure" THEN StrNumber(a.configure[1])
                           ELSE NoNumber
                     /\ pc' = "connect"
                     /\ UNCHANGED <<error_printed, help_printed, sys_exit, ret>>
    /\ UNCHANGED <<disconnect_calls, client, is_connected, ops, auth_ret, write_ret, readVars,
                   pending, scanVars>>

\* configure_machine(device_address, machine_number, password) called with an
\* integer machine number.
call_configure_machine ==
    /\ pc = "start"
    /\ \E n \in ApiNumbers, pw \in PasswordArgs :
         /\ machine_number' = IntNumber(n)
         /\ password' = pw
    /\ device_address' = AddressText
    /\ entry' = "api"
    /\ command' = "configure"
    /\ pc' = "connect"
    /\ UNCHANGED <<disconnect_calls, args, help_printed, sys_exit, client, is_connected, ops,
                   auth_ret, write_ret, readVars, pending, ret, error_printed,
                   scanVars>>

(* --------------------------- remote calls ----------------------------- *)

Op(o, c, v, ok) ==
    [op |-> o, char |-> c, val |-> v, ok |-> ok]

\* Bytes that bytes.decode('utf-8') rejects.
InvalidUtf8 ==
    <<"0xFF">>

\* `except Exception as e`: print the error; configure_machine returns False,
\* read_configuration falls through to its end.
ExceptHandler ==
    /\ error_printed' = TRUE
    /\ pending' = IF command = "configure" THEN "False" ELSE "None"
    /\ pc' = "finally"

\* FullWashBLEConfig.connect
connect ==
    /\ pc = "connect"
    /\ \/ \* BleakClient(...) raises: self.client stays None
          /\ UNCHANGED <<client, is_connected, ops>>
          /\ ExceptHandler
       \/ \* client.connect() raises
          /\ client' = "BleakClient"
          /\ is_connected' = FALSE
          /\ ops' = Append(ops, Op("connect", "", <<>>, FALSE))
          /\ ExceptHandler
       \/ /\ client' = "BleakClient"
          /\ is_connected' = TRUE
          /\ ops' = Append(ops, Op("connect", "", <<>>, TRUE))
          /\ pc' = "auth_write"
          /\ UNCHANGED <<error_printed, pending>>
    /\ UNCHANGED <<disconnect_calls, mainVars, configVars, auth_ret, write_ret, readVars, ret,
                   scanVars>>

\* authenticate: write the password to the auth attribute
authenticate_write ==
    /\ pc = "auth_write"
    /\ \/ /\ ops' = Append(ops, Op("write", AUTH_CHAR_UUID, password, TRUE))
          /\ pc' = "auth_status"
          /\ UNCHANGED <<is_connected, error_printed, pending>>
       \/ /\ ops' = Append(ops, Op("write", AUTH_CHAR_UUID, password, FALSE))
          /\ is_connected' \in BOOLEAN
          /\ ExceptHandler
    /\ UNCHANGED <<disconnect_calls, mainVars, configVars, client, auth_ret, write_ret, readVars,
                   ret, scanVars>>

\* `"Authenticated" in status_str`
AuthResultAnyCase(status_str) ==
    IF Contains(Lower(AuthMarker), Lower(status_str)) THEN "True" ELSE "False"

AuthResult(status_str) ==
    IF Contains(AuthMarker, status_str) THEN "True" ELSE "False"

\* authenticate writing the password again when the marker is missing
authenticate_status_retry ==
    /\ pc = "auth_status"
    /\ \/ \E status \in StatusTexts :
            /\ ops' = Append(ops, Op("read", STATUS_CHAR_UUID, status, TRUE))
            /\ auth_ret' = AuthResult(status)
            /\ pc' = IF AuthResult(status) = "True" THEN "auth_done"
                     ELSE "auth_write"
            /\ UNCHANGED <<is_connected, error_printed, pending>>
       \/ /\ ops' = Append(ops, Op("read", STATUS_CHAR_UUID, <<>>, FALSE))
          /\ is_connected' \in BOOLEAN
          /\ ExceptHandler
          /\ UNCHANGED auth_ret
    /\ UNCHANGED <<disconnect_calls, mainVars, configVars, client, write_ret,
                   readVars, ret, scanVars>>

\* authenticate: after the pause, read the status and look for the marker
authenticate_status ==
    /\ pc = "auth_status"
    /\ \/ \E status \in StatusTexts :
            /\ ops' = Append(ops, Op("read", STATUS_CHAR_UUID, status, TRUE))
            /\ auth_ret' = AuthResult(status)
            /\ pc' = "auth_done"
            /\ UNCHANGED <<is_connected, error_printed, pending>>
       \/ \* read_gatt_char raises
          /\ ops' = Append(ops, Op("read", STATUS_CHAR_UUID, <<>>, FALSE))
          /\ is_connected' \in BOOLEAN
          /\ ExceptHandler
          /\ UNCHANGED auth_ret
       \/ \* status.decode raises
          /\ ops' = Append(ops, Op("read", STATUS_CHAR_UUID, InvalidUtf8, TRUE))
          /\ ExceptHandler
          /\ UNCHANGED <<auth_ret, is_connected>>
    /\ UNCHANGED <<disconnect_calls, mainVars, configVars, client, write_ret, readVars, ret,
                   scanVars>>

\* read_configuration: `if await config.authenticate():`
read_configuration_auth ==
    /\ pc = "auth_done"
    /\ command = "read"
    /\ IF auth_ret = "True"
       THEN pc' = "read_num" /\ UNCHANGED pending
       ELSE pc' = "finally" /\ pending' = "None"
    /\ UNCHANGED <<disconnect_calls, mainVars, configVars, client, is_connected, ops, auth_ret,
                   write_ret, readVars, ret, error_printed, scanVars>>

\* configure_machine going on whatever authenticate returned
configure_machine_auth_nogate ==
    /\ pc = "auth_done"
    /\ command = "configure"
    /\ pc' = "read_current"
    /\ UNCHANGED <<disconnect_calls, mainVars, configVars, client, is_connected,
                   ops, auth_ret, write_ret, readVars, ret, error_printed,
                   pending, scanVars>>

\* configure_machine: `if not await config.authenticate(): ... return False`
configure_machine_auth ==
    /\ pc = "auth_done"
    /\ command = "configure"
    /\ IF auth_ret = "True"
       THEN pc' = "read_current" /\ UNCHANGED pending
       ELSE pc' = "finally" /\ pending' = "False"
    /\ UNCHANGED <<disconnect_calls, mainVars, configVars, client, is_connected, ops, auth_ret,
                   write_ret, readVars, ret, error_printed, scanVars>>

(* ------------------------ machine number ------------------------------ *)

\* read_configuration: machine_num = await config.read_machine_number()
read_configuration_read ==
    /\ pc = "read_num"
    /\ \/ \E t \in NumberTexts :
            /\ ops' = Append(ops, Op("read", MACHINE_NUM_CHAR_UUID, t, TRUE))
            /\ machine_num' = Some(t)
            /\ pending' = "None"
            /\ pc' = "finally"
            /\ UNCHANGED <<is_connected, error_printed>>
       \/ /\ ops' = Append(ops, Op("read", MACHINE_NUM_CHAR_UUID, <<>>, FALSE))
          /\ is_connected' \in BOOLEAN
          /\ ExceptHandler
          /\ UNCHANGED machine_num
    /\ UNCHANGED <<disconnect_calls, mainVars, configVars, client, auth_ret, write_ret,
                   current_num, new_num, ret, scanVars>>

\* configure_machine: current_num = await config.read_machine_number()
configure_machine_read_current ==
    /\ pc = "read_current"
    /\ \/ \E t \in NumberTexts :
            /\ ops' = Append(ops, Op("read", MACHINE_NUM_CHAR_UUID, t, TRUE))
            /\ current_num' = Some(t)
            /\ pc' = "write_num"
            /\ UNCHANGED <<is_connected, error_printed, pending>>
       \/ /\ ops' = Append(ops, Op("read", MACHINE_NUM_CHAR_UUID, <<>>, FALSE))
          /\ is_connected' \in BOOLEAN
          /\ ExceptHandler
          /\ UNCHANGED current_num
    /\ UNCHANGED <<disconnect_calls, mainVars, configVars, client, auth_ret, write_ret,
                   machine_num, new_num, ret, scanVars>>

\* write_machine_number: write str(number) to the machine-number attribute
write_machine_number_write ==
    /\ pc = "write_num"
    /\ \/ /\ ops' = Append(ops, Op("write", MACHINE_NUM_CHAR_UUID,
                                   Str(machine_number), TRUE))
          /\ pc' = "write_status"
          /\ UNCHANGED <<is_connected, error_printed, pending>>
       \/ /\ ops' = Append(ops, Op("write", MACHINE_NUM_CHAR_UUID,
                                   Str(machine_number), FALSE))
          /\ is_connected' \in BOOLEAN
          /\ ExceptHandler
    /\ UNCHANGED <<disconnect_calls, mainVars, configVars, client, auth_ret, write_ret, readVars,
                   ret, scanVars>>

\* `"success" in status_str.lower()`
WriteResult(status_str) ==
    IF Contains(SuccessMarker, Lower(status_str)) THEN "True" ELSE "False"

\* write_machine_number judging the write by the status authenticate read
write_machine_number_status_stale ==
    /\ pc = "write_status"
    /\ \E status \in StatusTexts :
         /\ ops' = Append(ops, Op("read", STATUS_CHAR_UUID, status, TRUE))
         /\ write_ret' = WriteResult(ops[3].val)
         /\ pc' = "write_done"
    /\ UNCHANGED <<disconnect_calls, mainVars, configVars, client, is_connected,
                   auth_ret, readVars, ret, error_printed, pending, scanVars>>

\* write_machine_number: after the pause, read the status and look for the marker
write_machine_number_status ==
    /\ pc = "write_status"
    /\ \/ \E status \in StatusTexts :
            /\ ops' = Append(ops, Op("read", STATUS_CHAR_UUID, status, TRUE))
            /\ write_ret' = WriteResult(status)
            /\ pc' = "write_done"
            /\ UNCHANGED <<is_connected, error_printed, pending>>
       \/ /\ ops' = Append(ops, Op("read", STATUS_CHAR_UUID, <<>>, FALSE))
          /\ is_connected' \in BOOLEAN
          /\ ExceptHandler
          /\ UNCHANGED write_ret
       \/ /\ ops' = Append(ops, Op("read", STATUS_CHAR_UUID, InvalidUtf8, TRUE))
          /\ ExceptHandler
          /\ UNCHANGED <<write_ret, is_connected>>
    /\ UNCHANGED <<disconnect_calls, mainVars, configVars, client, auth_ret, readVars, ret,
                   scanVars>>

\* configure_machine: `if await config.write_machine_number(machine_number):`
configure_machine_write ==
    /\ pc = "write_done"
    /\ IF write_ret = "True"
       THEN pc' = "read_back" /\ UNCHANGED pending
       ELSE pc' = "finally" /\ pending' = "False"
    /\ UNCHANGED <<disconnect_calls, mainVars, configVars, client, is_connected, ops, auth_ret,
                   write_ret, readVars, ret, error_printed, scanVars>>

\* configure_machine: new_num = await config.read_machine_number(); return True
configure_machine_read_back ==
    /\ pc = "read_back"
    /\ \/ \E t \in NumberTexts :
            /\ ops' = Append(ops, Op("read", MACHINE_NUM_CHAR_UUID, t, TRUE))
            /\ new_num' = Some(t)
            /\ pending' = "True"
            /\ pc' = "finally"
            /\ UNCHANGED <<is_connected, error_printed>>
       \/ /\ ops' = Append(ops, Op("read", MACHINE_NUM_CHAR_UUID, <<>>, FALSE))
          /\ is_connected' \in BOOLEAN
          /\ ExceptHandler
          /\ UNCHANGED new_num
    /\ UNCHANGED <<disconnect_calls, mainVars, configVars, client, auth_ret, write_ret,
                   machine_num, current_num, ret, scanVars>>

(* ----------------------------- disconnect ----------------------------- *)

\* `self.client and self.client.is_connected`
ShouldDisconnect ==
    client # "None" /\ is_connected

\* `finally: await config.disconnect()`, then the command returns the pending
\* value; an exception raised by client.disconnect() replaces it.
disconnect ==
    /\ pc = "finally"
    /\ IF ShouldDisconnect
       THEN \/ /\ ops' = Append(ops, Op("disconnect", "", <<>>, TRUE))
               /\ is_connected' = FALSE
               /\ ret' = pending
            \/ /\ ops' = Append(ops, Op("disconnect", "", <<>>, FALSE))
               /\ is_connected' \in BOOLEAN
               /\ ret' = "raised"
       ELSE /\ ret' = pending
            /\ UNCHANGED <<ops, is_connected>>
    /\ disconnect_calls' = disconnect_calls + 1
    /\ pc' = "done"
    /\ UNCHANGED <<mainVars, configVars, client, auth_ret, write_ret, readVars,
                   pending, error_printed, scanVars>>

(* -------------------------------- scan -------------------------------- *)

\* `DEFAULT_DEVICE_NAME in (device.name or "")`
IsFullwashExact(device) ==
    OrEmpty(device.name) = DEFAULT_DEVICE_NAME

IsFullwash(device) ==
    Contains(DEFAULT_DEVICE_NAME, OrEmpty(device.name))

\* scan_devices: devices = await BleakScanner.discover(timeout=5.0)
scan_devices_discover ==
    /\ pc = "discover"
    /\ \/ \E names \in DeviceLists :
            /\ devices' = Discovered(names)
            /\ ops' = Append(ops, Op("discover", "", <<>>, TRUE))
            /\ idx' = 0
            /\ fullwash_devices' = <<>>
            /\ pc' = "scan_loop"
            /\ UNCHANGED ret
       \/ \* discover raises; scan_devices has no try block
          /\ ops' = Append(ops, Op("discover", "", <<>>, FALSE))
          /\ ret' = "raised"
          /\ pc' = "done"
          /\ UNCHANGED <<devices, idx, fullwash_devices>>
    /\ UNCHANGED <<disconnect_calls, mainVars, configVars, client, is_connected, auth_ret,
                   write_ret, readVars, pending, error_printed, scan_ret>>

\* scan_devices: one iteration of `for device in devices`
scan_devices_loop ==
    /\ pc = "scan_loop"
    /\ idx < Len(devices)
    /\ LET device == devices[idx + 1]
       IN  fullwash_devices' = IF IsFullwash(device)
                               THEN Append(fullwash_devices, device)
                               ELSE fullwash_devices
    /\ idx' = idx + 1
    /\ UNCHANGED <<disconnect_calls, pc, mainVars, configVars, client, is_connected, ops,
                   auth_ret, write_ret, readVars, pending, ret, error_printed,
                   devices, scan_ret>>

\* scan_devices: `if fullwash_devices: return fullwash_devices else: return []`
scan_devices_return ==
    /\ pc = "scan_loop"
    /\ idx = Len(devices)
    /\ scan_ret' = IF fullwash_devices # <<>> THEN fullwash_devices ELSE <<>>
    /\ ret' = "list"
    /\ pc' = "done"
    /\ UNCHANGED <<disconnect_calls, mainVars, configVars, client, is_connected, ops, auth_ret,
                   write_ret, readVars, pending, error_printed, devices, idx,
                   fullwash_devices>>

(* --------------------------- specification ---------------------------- *)

Next ==
    \/ main
    \/ call_configure_machine
    \/ connect
    \/ authenticate_write
    \/ authenticate_status
    \/ read_configuration_auth
    \/ configure_machine_auth
    \/ read_configuration_read
    \/ configure_machine_read_current
    \/ write_machine_number_write
    \/ write_machine_number_status
    \/ configure_machine_write
    \/ configure_machine_read_back
    \/ disconnect
    \/ scan_devices_discover
    \/ scan_devices_loop
    \/ scan_devices_return

Spec ==
    Init /\ [][Next]_vars

(* ------------------------------ claims -------------------------------- *)

\* The positions of the remote calls of kind o on attribute c.
Calls(o, c) ==
    {i \in DOMAIN ops : ops[i].op = o /\ ops[i].char = c}

ConnectSucceeded ==
    \E i \in DOMAIN ops : ops[i].op = "connect" /\ ops[i].ok

RECURSIVE DecimalValue(_)
DecimalValue(t) ==
    IF Len(t) = 0 THEN 0
    ELSE 10 * DecimalValue(SubSeq(t, 1, Len(t) - 1))
         + (CHOOSE d \in 0..9 : Digits[d + 1] = t[Len(t)])

IsDigits(t) ==
    Len(t) > 0 /\ \A i \in 1..Len(t) : \E d \in 1..10 : Digits[d] = t[i]

\* t is the decimal text of the integer n.
IsDecimalOf(t, n) ==
    IF n < 0
    THEN Len(t) > 1 /\ t[1] = "-" /\ IsDigits(Tail(t)) /\ DecimalValue(Tail(t)) = -n
    ELSE IsDigits(t) /\ DecimalValue(t) = n

\* C1: a call on the machine-number attribute is preceded, in this order, by
\* a successful connect, a successful password write and a status read whose
\* text contains "Authenticated"; and when authenticate returned False the
\* remote calls are connect, the password write, one status read and at
\* most the disconnect.
C1_AuthGate ==
    /\ \A i \in Calls("read", MACHINE_NUM_CHAR_UUID)
               \cup Calls("write", MACHINE_NUM_CHAR_UUID) :
         /\ auth_ret = "True"
         /\ i > 3
         /\ ops[1] = Op("connect", "", <<>>, TRUE)
         /\ ops[2] = Op("write", AUTH_CHAR_UUID, password, TRUE)
         /\ ops[3].op = "read" /\ ops[3].char = STATUS_CHAR_UUID /\ ops[3].ok
         /\ Contains(AuthMarker, ops[3].val)
    /\ auth_ret = "False" =>
         /\ Len(ops) \in {3, 4}
         /\ ops[1].op = "connect"
         /\ ops[2] = Op("write", AUTH_CHAR_UUID, password, TRUE)
         /\ ops[3].op = "read" /\ ops[3].char = STATUS_CHAR_UUID
         /\ Len(ops) = 4 => ops[4].op = "disconnect"

C1_Witness ==
    /\ pc = "done"
    /\ command = "configure"
    /\ Calls("write", MACHINE_NUM_CHAR_UUID) # {}
    /\ Calls("read", MACHINE_NUM_CHAR_UUID) # {}

\* C2: when a command has ended and a remote call of it failed, the
\* exception did not leave the command, an error line was printed and the
\* command did not return True.
C2_AllFailuresCaught ==
    (pc = "done" /\ \E i \in DOMAIN ops : ~ops[i].ok) =>
        /\ ret # "raised"
        /\ ret # "True"
        /\ error_printed

\* C3: when read_configuration or configure_machine has ended, disconnect
\* was awaited once; after a successful connect the client is not connected;
\* without one no remote disconnect was issued and nothing was raised.
C3_OpenedAndClosed ==
    (pc = "done" /\ command \in {"read", "configure"}) =>
        /\ disconnect_calls = 1
        /\ ConnectSucceeded => ~is_connected
        /\ ~ConnectSucceeded =>
             /\ \A i \in DOMAIN ops : ops[i].op # "disconnect"
             /\ ret # "raised"

\* C4 as stated: main exits through sys.exit(1) exactly when --scan is not
\* given, --read or --configure is given (with any value, the empty one
\* included) and --address is not given.
C4_Original ==
    (entry = "main") =>
        (sys_exit <=> /\ ~args.scan
                      /\ (args.read \/ args.configure # None)
                      /\ args.address = None)

\* C4 as amended: main exits through sys.exit(1) exactly when --scan is not
\* given, --read is given or --configure has a non-empty value, and
\* --address is absent or empty; it has then printed the error and the usage
\* text and issued no remote call.
C4_UsageError ==
    (entry = "main") =>
        /\ sys_exit <=> /\ ~args.scan
                        /\ (args.read \/ (args.configure # None
                                          /\ args.configure[1] # <<>>))
                        /\ (args.address = None \/ args.address[1] = <<>>)
        /\ sys_exit => /\ error_printed
                       /\ help_printed
                       /\ ops = <<>>
                       /\ client = "None"
                       /\ pc = "done"

C4_Witness ==
    /\ sys_exit
    /\ ~args.read
    /\ args.configure = Some(<<"4","2">>)
    /\ args.address = Some(<<>>)

\* A step that failed: a remote call that raised, or a status read whose text
\* lacks the marker its reader looks for (the first status read is
\* authenticate's, a later one write_machine_number's).
FailedStep(i) ==
    \/ ~ops[i].ok
    \/ /\ ops[i].op = "read"
       /\ ops[i].char = STATUS_CHAR_UUID
       /\ IF \A j \in 1..(i - 1) : ops[j].char # STATUS_CHAR_UUID
          THEN ~Contains(AuthMarker, ops[i].val)
          ELSE ~Contains(SuccessMarker, Lower(ops[i].val))

\* C5: connect is attempted at most once, the password is written at most
\* once, the machine number is written at most once, and no write follows a
\* failed step.
C5_NoRetries ==
    /\ Cardinality(Calls("connect", "")) <= 1
    /\ Cardinality(Calls("write", AUTH_CHAR_UUID)) <= 1
    /\ Cardinality(Calls("write", MACHINE_NUM_CHAR_UUID)) <= 1
    /\ \A i \in DOMAIN ops : \A j \in DOMAIN ops :
         (i < j /\ FailedStep(i)) => ops[j].op # "write"

C5_Witness ==
    /\ pc = "done"
    /\ write_ret = "False"
    /\ Cardinality(Calls("write", MACHINE_NUM_CHAR_UUID)) = 1
    /\ ops[Len(ops)].op = "disconnect"

\* The status texts by which the device rejects the password.
RejectionTexts ==
    {TxtNotAuthenticated, TxtAuthFailed}

\* C6 as stated: authenticate returns True exactly when the status text
\* contains "Authenticated", and False for every text that signals a
\* rejected password.
C6_Original ==
    (auth_ret # "unset") =>
        /\ auth_ret = "True" <=> Contains(AuthMarker, ops[3].val)
        /\ ops[3].val \in RejectionTexts => auth_ret = "False"

\* C6 as amended: authenticate writes the password to the auth attribute,
\* then reads the status attribute once, and returns True exactly when that
\* text contains "Authenticated" in this case; a rejection text returns
\* False only when it does not contain that substring.
C6_Authenticate ==
    (auth_ret # "unset") =>
        /\ ops[2] = Op("write", AUTH_CHAR_UUID, password, TRUE)
        /\ ops[3].op = "read" /\ ops[3].char = STATUS_CHAR_UUID /\ ops[3].ok
        /\ pc = "auth_done" => Len(ops) = 3
        /\ auth_ret = "True" <=> Contains(AuthMarker, ops[3].val)
        /\ (ops[3].val \in RejectionTexts /\ ~Contains(AuthMarker, ops[3].val))
              => auth_ret = "False"

C6_Witness ==
    /\ pc = "auth_done"
    /\ auth_ret = "True"
    /\ ops[3].val = TxtNotAuthenticated

\* C7: when write_machine_number has returned, the call before last of it
\* wrote the decimal text of the number to the machine-number attribute, the
\* one status read that follows is its last call, and it returned True
\* exactly when the lower-cased text of that read contains "success".
C7_WriteMachineNumber ==
    (write_ret # "unset") =>
        \E w \in Calls("write", MACHINE_NUM_CHAR_UUID) :
            /\ w > 3
            /\ ops[w].ok
            /\ machine_number.kind = "int" => IsDecimalOf(ops[w].val, machine_number.n)
            /\ machine_number.kind = "str" => ops[w].val = machine_number.s
            /\ ops[w + 1].op = "read"
            /\ ops[w + 1].char = STATUS_CHAR_UUID
            /\ ops[w + 1].ok
            /\ pc = "write_done" => Len(ops) = w + 1
            /\ write_ret = "True" <=> Contains(SuccessMarker, Lower(ops[w + 1].val))

C7_Witness ==
    /\ pc = "write_done"
    /\ write_ret = "True"
    /\ machine_number = IntNumber(105)
    /\ ops[3].val = TxtAuthenticated
    /\ ops[Len(ops)].val = TxtUpperSuccess

\* C8: the list scan_devices returns is the discovered devices whose name is
\* present and contains "FullWash Machine", in discovery order; it is empty
\* exactly when no discovered device matches.
C8_ScanPartition ==
    (ret = "list") =>
        LET Matches(d) == d.name # None /\ Contains(DEFAULT_DEVICE_NAME, d.name[1])
        IN  /\ scan_ret = SelectSeq(devices, Matches)
            /\ scan_ret = <<>> <=> ~\E i \in DOMAIN devices : Matches(devices[i])

C8_Witness ==
    /\ ret = "list"
    /\ Len(devices) = 3
    /\ devices[1].name = Some(NamePrefixed)
    /\ devices[2].name = None
    /\ devices[3].name = Some(NameSuffixed)
    /\ scan_ret = <<devices[1], devices[3]>>

\* C9: when configure_machine returned True, the machine number read back
\* after the write is the requested one.
C9_ReadBackVerified ==
    (ret = "True") => new_num = Some(Str(machine_number))

\* C10: main runs at most one command, the first of scan, read and
\* configure that is given: with --scan only the discovery is issued and
\* there is no missing-address error; with --read the machine number is not
\* written; with no command flag (or an empty --configure) the help text is
\* printed and no remote call is issued.
C10_OneCommand ==
    (entry = "main") =>
        /\ Cardinality(Calls("discover", "")) + Cardinality(Calls("connect", "")) <= 1
        /\ args.scan =>
             /\ command = "scan"
             /\ ~sys_exit
             /\ ~error_printed
             /\ \A i \in DOMAIN ops : ops[i].op = "discover"
        /\ (~args.scan /\ args.read) =>
             /\ command \in {"read", "none"}
             /\ Calls("discover", "") = {}
             /\ Calls("write", MACHINE_NUM_CHAR_UUID) = {}
        /\ (~args.scan /\ ~args.read) =>
             /\ command \in {"configure", "none"}
             /\ Calls("discover", "") = {}
        /\ (~args.scan /\ ~args.read
              /\ (args.configure = None \/ args.configure[1] = <<>>)) =>
             /\ command = "none"
             /\ help_printed
             /\ ~sys_exit
             /\ ops = <<>>
             /\ pc = "done"

C10_Witness ==
    /\ ret = "list"
    /\ args.scan
    /\ args.read
    /\ args.configure = Some(<<"4","2">>)
    /\ args.address = None

====
